---- MODULE Spec2Model ----
(***************************************************************************)
(* A model of src/music_player.py: the MusicPlayer class's playlist store, *)
(* its transport flags, the two audio backends it drives (python-vlc when  *)
(* importable, pygame.mixer.music otherwise) and its Tk timer callbacks.   *)
(*                                                                         *)
(* Every Tk callback (button command, menu command, double click, timer)   *)
(* is one action.  The handlers call each other synchronously in the       *)
(* source (play_song -> check_song_end -> next_song -> play_song), so the  *)
(* transport handlers are operators over a record of the transport fields  *)
(* and an action applies the operator to the current state.                *)
(* Message boxes are modelled as returning at once.                        *)
(***************************************************************************)
EXTENDS Integers, Sequences, FiniteSets, TLC

VARIABLES
    use_vlc,                \* self._use_vlc after __init__ (line 159-170)
    mixer_ok,               \* pygame.mixer.init() succeeded (line 173-188)
    all_songs,              \* self.all_songs
    favourites,             \* self.favourites
    playlists,              \* self.playlists: name -> sequence of paths
    current_playlist_name,  \* self.current_playlist_name
    current_playlist,       \* self.current_playlist (the view)
    current_index,          \* self.current_index (0-based)
    is_playing,             \* self.is_playing
    is_paused,              \* self.is_paused
    bstate,                 \* state of the active backend's player
    btrack,                 \* track most recently loaded into the active backend
    pending,                \* number of scheduled check_song_end callbacks
    volume,                 \* self.volume, in percent (0.7 is 70)
    bvolume,                \* volume the active backend was last given, percent
    progress,               \* self.progress_var, the progress bar's percentage
    ticks                   \* number of scheduled update_progress callbacks

vars == <<use_vlc, mixer_ok, all_songs, favourites, playlists,
          current_playlist_name, current_playlist, current_index,
          is_playing, is_paused, bstate, btrack, pending,
          volume, bvolume, progress, ticks>>

storeVars == <<all_songs, favourites, playlists, current_playlist_name,
               current_playlist>>
configVars == <<use_vlc, mixer_ok>>
backendVars == <<bstate, btrack>>
volumeVars == <<volume, bvolume>>
displayVars == <<volume, bvolume, progress, ticks>>

----------------------------------------------------------------------------
(* Bounds of the model *)

\* The audio files that exist in the user's file system.
Songs == {"A", "B", "C"}

\* What os.walk finds in the "songs" folder beside the script at start-up.
SongsFolder == <<"A", "B">>

\* Names the user may type into the "Create Playlist" dialog.
TypedNames == {"P", "All"}

\* The most check_song_end callbacks the model lets be scheduled at once.
MaxPending == 2

\* The most play_song frames the interpreter's stack holds before it raises
\* RecursionError (sys.getrecursionlimit() frames in CPython, scaled down).
StackFrames == 4

\* The most entries the model lets the favourites and a custom playlist hold.
MaxListLen == 1

\* The most entries the favourites hold in EditSpec, where the view
\* "Favourite" has to hold a track on either side of the cursor.
MaxEditLen == 2

NoTrack == "none"

\* self.volume after __init__ (line 199: 0.7), in percent.
InitialVolume == 70

\* The volume of a backend that was never given one (pygame's music volume
\* starts at 1.0, a VLC player's at 100).
BackendDefaultVolume == 100

\* The values the volume slider (ttk.Scale from 0 to 100, lines 605-614)
\* hands to set_volume, as whole percents.
SliderValues == {29, 100}

\* What mutagen (pygame mode) and get_length (VLC mode) report as the length
\* of each file, in seconds; 0 stands for a file whose length is not known.
Duration == [f \in Songs |-> IF f = "A" THEN 1 ELSE IF f = "B" THEN 2 ELSE 0]

----------------------------------------------------------------------------
(* Python list helpers *)

\* x in seq
Contains(seq, x) == \E i \in 1..Len(seq) : seq[i] = x

\* list.remove(x): the list without its first x (the caller checks x is in it)
Remove(seq, x) ==
    LET i == CHOOSE k \in 1..Len(seq) :
                 seq[k] = x /\ \A j \in 1..(k - 1) : seq[j] # x
    IN  SubSeq(seq, 1, i - 1) \o SubSeq(seq, i + 1, Len(seq))

----------------------------------------------------------------------------
(* Audio backend (lines 937-1029).  Only one backend is ever driven: every  *)
(* _backend_* method returns before its pygame call when _use_vlc is set,   *)
(* so bstate/btrack describe the VLC player in VLC mode and the pygame      *)
(* music stream otherwise; the other one stays idle for the whole session.  *)
(* bstate: "idle" (nothing loaded, or stopped), "opening" (VLC only: play()  *)
(* has returned and the media is not playing yet), "playing", "paused",     *)
(* "ended" (the track played to its end).                                   *)

\* No backend call can succeed: VLC is absent and the mixer did not start.
NoBackend == ~use_vlc /\ ~mixer_ok

\* _backend_stop: player.stop() / pygame.mixer.music.stop().
backend_stop(t) ==
    IF NoBackend THEN [t EXCEPT !.exc = TRUE, !.text = {"pygame.error"}]
    ELSE [t EXCEPT !.bstate = "idle", !.cmds = @ \cup {"stop"}]

\* What pygame.mixer.music.load says about a file it cannot decode.
DecodeError ==
    [f \in Songs |-> IF f = "A" THEN "ModPlug_load failed"
                     ELSE "Unrecognized audio format"]

\* _backend_play with lines 953-962 left out: every pygame.error is raised
\* again as it came.
backend_play_raw(t, file, env) ==
    IF NoBackend THEN [t EXCEPT !.exc = TRUE, !.text = {"pygame.error"}]
    ELSE IF ~use_vlc /\ file \in env.undecodable
    THEN [t EXCEPT !.exc = TRUE, !.cmds = @ \cup {"play"},
                   !.text = {"pygame.error"}]
    ELSE [t EXCEPT !.bstate = IF use_vlc /\ ~env.started THEN "opening"
                              ELSE "playing",
                   !.btrack = file,
                   !.loads = @ + 1, !.cmds = @ \cup {"play"}]

\* _backend_play (lines 940-964).  VLC takes any path and play() returns
\* before the media plays: whether is_playing() is already 1 when the
\* handler goes on is a race, decided by env.started.  pygame plays at once
\* and raises pygame.error for a file it cannot decode.
\* The exception raised for "ModPlug_load failed" carries the advice to
\* install the VLC backend followed by the original error (lines 954-961);
\* any other pygame.error is raised again as it came (line 962).
backend_play(t, file, env) ==
    IF NoBackend THEN [t EXCEPT !.exc = TRUE, !.text = {"pygame.error"}]
    ELSE IF ~use_vlc /\ file \in env.undecodable
    THEN [t EXCEPT !.exc = TRUE, !.cmds = @ \cup {"play"},
                   !.text = IF DecodeError[file] = "ModPlug_load failed"
                            THEN {"remediation", "pygame.error"}
                            ELSE {"pygame.error"}]
    ELSE [t EXCEPT !.bstate = IF use_vlc /\ ~env.started THEN "opening"
                              ELSE "playing",
                   !.btrack = file,
                   !.loads = @ + 1, !.cmds = @ \cup {"play"}]

\* _backend_pause: VLC's pause() toggles; pygame's pause() only pauses.
backend_pause(t) ==
    IF NoBackend THEN [t EXCEPT !.exc = TRUE]
    ELSE [t EXCEPT !.cmds = @ \cup {"pause"},
                   !.bstate = IF @ = "playing" THEN "paused"
                              ELSE IF use_vlc /\ @ = "paused" THEN "playing"
                              ELSE @]

\* _backend_unpause: in VLC mode the same toggle; pygame's unpause().
backend_unpause(t) ==
    IF NoBackend THEN [t EXCEPT !.exc = TRUE]
    ELSE [t EXCEPT !.cmds = @ \cup {"unpause"},
                   !.bstate = IF @ = "paused" THEN "playing"
                              ELSE IF use_vlc /\ @ = "playing" THEN "paused"
                              ELSE @]

\* _backend_is_busy: is_playing() == 1 / get_busy(), False on any exception.
backend_is_busy(t) == ~NoBackend /\ t.bstate = "playing"

\* pygame.mixer.music.get_busy() as check_song_end calls it (line 857): the
\* pygame stream is never loaded in VLC mode.
mixer_get_busy(t) == ~use_vlc /\ t.bstate = "playing"

----------------------------------------------------------------------------
(* Transport handlers (lines 796-905) over the record t of transport fields *)
(*   idx, playing, paused, bstate, btrack, pending     the player's fields  *)
(*   exc      an exception is propagating out of the call                   *)
(*   loads    number of tracks loaded by the call                            *)
(*   nexts    number of next_song calls made by check_song_end               *)
(*   advBusy  check_song_end called next_song while the backend played      *)
(*   caught   play_song's outer except clause ran (line 848)                 *)
(*   cmds     the kinds of command sent to the backend                       *)
(*   first    outcome of the first play_song call ("none": there was none)   *)
(*   text     what the exception of a failed load or stop says               *)
(*   shown    what play_song's "Could not play song" box said (line 818)     *)
(* env is the environment of one handler run (see Envs): the files that    *)
(* are missing, the files pygame cannot decode, whether VLC has started to   *)
(* play when the handler goes on, and where the stack runs out.              *)

RECURSIVE play_song(_, _, _, _)
RECURSIVE check_song_end(_, _, _, _)
RECURSIVE next_song(_, _, _, _)

\* play_song (lines 796-853), with d play_song frames left on the stack
\* (d >= 1).  The call of check_song_end at line 846 is inside the try
\* block: what it raises, RecursionError included, ends in the except
\* clause of line 848, which clears is_playing.
play_song(t, view, env, d) ==
    IF view = <<>> THEN [t EXCEPT !.first = IF @ = "none" THEN "empty" ELSE @]
    ELSE
    LET t1   == IF t.idx >= Len(view) THEN [t EXCEPT !.idx = 0] ELSE t
        file == view[t1.idx + 1]
    IN  IF file \in env.missing
        THEN [t1 EXCEPT !.first = IF @ = "none" THEN "missing" ELSE @]
        ELSE
        LET t2 == backend_stop(t1)
            t3 == IF t2.exc THEN t2 ELSE backend_play(t2, file, env)
        IN  IF t3.exc
            THEN [t3 EXCEPT !.exc = FALSE,
                            !.shown = IF @ = {} THEN t3.text ELSE @,
                            !.first = IF @ = "none" THEN "error" ELSE @]
            ELSE
            LET t4 == [t3 EXCEPT !.playing = TRUE, !.paused = FALSE,
                                 !.first = IF @ = "none" THEN "ok" ELSE @]
                t5 == IF d = 1 /\ env.site = "check_song_end"
                      THEN [t4 EXCEPT !.exc = TRUE]
                      ELSE check_song_end(t4, view, env, d)
            IN  IF t5.exc
                THEN [t5 EXCEPT !.exc = FALSE, !.playing = FALSE,
                                !.caught = TRUE]
                ELSE t5

\* check_song_end (lines 855-860).  It asks pygame.mixer.music.get_busy(),
\* which raises pygame.error when the mixer was never initialised, and
\* either calls next_song or schedules itself again.
check_song_end(t, view, env, d) ==
    IF t.playing /\ ~mixer_ok THEN [t EXCEPT !.exc = TRUE]
    ELSE IF t.playing /\ ~mixer_get_busy(t)
    THEN next_song([t EXCEPT !.nexts = @ + 1,
                             !.advBusy = @ \/ backend_is_busy(t)],
                   view, env, d)
    ELSE [t EXCEPT !.pending = @ + 1]

\* next_song (lines 891-897); the call of play_song needs a further frame.
next_song(t, view, env, d) ==
    IF view = <<>> THEN t
    ELSE LET t1 == [t EXCEPT !.idx = (@ + 1) % Len(view)]
         IN  IF d = 1 THEN [t1 EXCEPT !.exc = TRUE]
             ELSE play_song(t1, view, env, d - 1)

\* previous_song (lines 899-905).
previous_song(t, view, env, d) ==
    IF view = <<>> THEN t
    ELSE play_song([t EXCEPT !.idx = (@ - 1) % Len(view)], view, env, d)

\* toggle_play_pause with line 878 left out: pausing does not clear is_playing.
toggle_play_pause_keeps_playing(t, view, env, d) ==
    IF view = <<>> THEN [t EXCEPT !.first = "empty"]
    ELSE IF ~t.playing
    THEN IF t.paused
         THEN LET t1 == backend_unpause(t)
              IN  IF t1.exc THEN t1
                  ELSE [t1 EXCEPT !.playing = TRUE, !.paused = FALSE]
         ELSE play_song(t, view, env, d)
    ELSE LET t1 == backend_pause(t)
         IN  IF t1.exc THEN t1
             ELSE [t1 EXCEPT !.paused = TRUE]

\* toggle_play_pause (lines 862-880).
toggle_play_pause(t, view, env, d) ==
    IF view = <<>> THEN [t EXCEPT !.first = "empty"]
    ELSE IF ~t.playing
    THEN IF t.paused
         THEN LET t1 == backend_unpause(t)
              IN  IF t1.exc THEN t1
                  ELSE [t1 EXCEPT !.playing = TRUE, !.paused = FALSE]
         ELSE play_song(t, view, env, d)
    ELSE LET t1 == backend_pause(t)
         IN  IF t1.exc THEN t1
             ELSE [t1 EXCEPT !.playing = FALSE, !.paused = TRUE]

\* stop_song without line 888: the progress bar keeps its value.
stop_song_keeps_progress(t) ==
    LET t1 == backend_stop(t)
    IN  IF t1.exc THEN t1
        ELSE [t1 EXCEPT !.playing = FALSE, !.paused = FALSE]

\* stop_song (lines 882-889): line 888 puts the progress bar back to 0.
stop_song(t) ==
    LET t1 == backend_stop(t)
    IN  IF t1.exc THEN t1
        ELSE [t1 EXCEPT !.playing = FALSE, !.paused = FALSE, !.progress = 0]

----------------------------------------------------------------------------
(* Glue between the variables and the transport record *)

\* The transport fields now, with the observations cleared.
Transport ==
    [idx |-> current_index, playing |-> is_playing, paused |-> is_paused,
     bstate |-> bstate, btrack |-> btrack, pending |-> pending,
     progress |-> progress,
     exc |-> FALSE, loads |-> 0, nexts |-> 0, advBusy |-> FALSE,
     caught |-> FALSE, cmds |-> {}, first |-> "none",
     text |-> {}, shown |-> {}]

\* The environments of one handler run: which files of the view are missing
\* (os.path.exists, line 809), which ones pygame cannot decode (VLC raises
\* for none), and, where the recursion of line 846 does not end by itself
\* (VLC mode), the call at which the stack runs out.  Without VLC a handler
\* tries one file at most, so the files share one status there.
ViewFiles == {current_playlist[i] : i \in 1..Len(current_playlist)}

Envs ==
    IF use_vlc
    THEN [missing : SUBSET ViewFiles, undecodable : {{}},
          site : {"check_song_end", "play_song"}, started : BOOLEAN]
    ELSE {e \in [missing : {{}, ViewFiles}, undecodable : {{}, ViewFiles},
                 site : {"check_song_end"}, started : {TRUE}] :
             e.missing \cap e.undecodable = {}}

\* The transport record r becomes the state.  The model follows a run only
\* while it leaves at most MaxPending callbacks scheduled.
Apply(r) ==
    /\ r.pending <= MaxPending
    /\ current_index' = r.idx
    /\ is_playing' = r.playing
    /\ is_paused' = r.paused
    /\ bstate' = r.bstate
    /\ btrack' = r.btrack
    /\ pending' = r.pending
    /\ progress' = r.progress

\* A handler run that goes over to the other backend when a load fails.
Ran_with_failover(r) ==
    /\ Apply(r)
    /\ use_vlc' = IF r.first = "error" THEN ~use_vlc ELSE use_vlc
    /\ UNCHANGED <<storeVars, mixer_ok, volumeVars, ticks>>

\* The step is the handler run r: r becomes the state, the store is kept.
Ran(r) == Apply(r) /\ UNCHANGED <<storeVars, configVars, volumeVars, ticks>>

----------------------------------------------------------------------------
(* Volume and progress (lines 907-929, 997-1029) *)

Min(a, b) == IF a <= b THEN a ELSE b
Max(a, b) == IF a >= b THEN a ELSE b

\* The whole percents p of 0..100 for which the double (p / 100.0) * 100 is
\* just below p, so that int() of line 1001 gives p - 1:
\* 0.29 * 100 = 28.999999999999996, and likewise for 0.57 and 0.58.
RoundsBelow == {29, 57, 58}

\* int(volume_0_to_1 * 100), line 1001, for a volume of p percent.
vlc_percent(p) == IF p \in RoundsBelow THEN p - 1 ELSE p

\* _backend_set_volume (lines 997-1006) called with p percent while the
\* backend holds b: the clamped value goes to VLC as an int, to pygame as it
\* is; pygame's error without a mixer is swallowed.  The result is the
\* volume the backend holds afterwards.
backend_set_volume(b, p) ==
    LET clamped == Max(0, Min(100, p))
    IN  IF use_vlc THEN vlc_percent(clamped)
        ELSE IF mixer_ok THEN clamped
        ELSE b

\* set_volume (lines 907-911) for the slider value v: the pair of the value
\* stored in self.volume and the value the backend holds afterwards.
set_volume(b, v) == <<v, backend_set_volume(b, v)>>

\* _backend_get_duration_seconds (lines 1015-1029).  VLC reports the length
\* of its media; in pygame mode mutagen reads the file under the cursor,
\* and 0.0 is returned when the cursor is outside the view or mutagen
\* cannot read the file (readable = FALSE).
backend_get_duration_seconds(readable) ==
    IF use_vlc THEN (IF btrack = NoTrack THEN 0 ELSE Duration[btrack])
    ELSE IF current_index < Len(current_playlist) /\ readable
    THEN Duration[current_playlist[current_index + 1]]
    ELSE 0

\* The positions _backend_get_pos_seconds (lines 1008-1013) may report
\* while the loaded track plays.
Positions == IF btrack = NoTrack THEN {0} ELSE 0..Duration[btrack]

\* update_progress (lines 913-929) when the backend reports position pos:
\* the value of progress_var afterwards.  The quotients are exact for the
\* lengths of Duration.
update_progress(pos, readable) ==
    IF is_playing /\ backend_is_busy(Transport)
    THEN LET duration == backend_get_duration_seconds(readable)
         IN  IF duration > 0 THEN Min((pos * 100) \div duration, 100)
             ELSE progress
    ELSE progress

\* The query of one update_progress run that raises, if any: is_playing()
\* or get_busy() inside _backend_is_busy, get_time() or get_pos() inside
\* _backend_get_pos_seconds, get_length() or mutagen inside
\* _backend_get_duration_seconds.
ProgressFaults == {"none", "is_busy", "get_pos", "get_duration"}

\* update_progress with the try statement of lines 915-927 left out: what a
\* query raises leaves the callback before line 929 schedules the next one.
progress_tick_unguarded(pos, readable, fault) ==
    IF fault = "is_busy" \/ ~(is_playing /\ backend_is_busy(Transport))
    THEN [progress |-> progress, ticks |-> ticks, exc |-> FALSE]
    ELSE IF fault = "none"
    THEN [progress |-> update_progress(pos, readable), ticks |-> ticks,
          exc |-> FALSE]
    ELSE [progress |-> progress, ticks |-> ticks - 1, exc |-> TRUE]

\* One run of the update_progress callback (lines 913-929): the callback
\* that ran is no longer scheduled.  _backend_is_busy answers False when its
\* query raises (lines 985-995); what the other two queries raise ends in
\* the bare except of line 926; line 929 then schedules the next run.
\* exc: an exception leaves the callback.
progress_tick(pos, readable, fault) ==
    LET due == ticks - 1
    IN  IF fault = "is_busy" \/ ~(is_playing /\ backend_is_busy(Transport))
        THEN [progress |-> progress, ticks |-> due + 1, exc |-> FALSE]
        ELSE IF fault = "none"
        THEN [progress |-> update_progress(pos, readable), ticks |-> due + 1,
              exc |-> FALSE]
        ELSE [progress |-> progress, ticks |-> due + 1, exc |-> FALSE]

----------------------------------------------------------------------------
(* The state after MusicPlayer.__init__ (lines 136-220) *)

Init ==
    /\ use_vlc \in BOOLEAN
    /\ mixer_ok \in BOOLEAN
    /\ all_songs = SongsFolder
    /\ favourites = <<>>
    /\ playlists = [n \in {"All", "Favourite"} |->
                        IF n = "All" THEN SongsFolder ELSE <<>>]
    /\ current_playlist_name = "All"
    /\ current_playlist = SongsFolder
    /\ current_index = 0
    /\ is_playing = FALSE
    /\ is_paused = FALSE
    /\ bstate = "idle"
    /\ btrack = NoTrack
    /\ pending = 0
    /\ volume = InitialVolume
    /\ bvolume = backend_set_volume(BackendDefaultVolume, InitialVolume)
    /\ progress = 0
    /\ ticks = 1

----------------------------------------------------------------------------
(* Transport actions: the four buttons, the double click, the timer.  The  *)
(* ...Runs sets hold the outcome of a handler for every environment it may  *)
(* meet in the current state.                                               *)

\* toggle_play_pause as the play/pause button's command (line 555).
ToggleRuns ==
    {toggle_play_pause(Transport, current_playlist, env, StackFrames) :
        env \in Envs}

\* stop_song as the stop button's command (line 571).
StopRuns == {stop_song(Transport)}

\* next_song as the next button's command (line 587).
NextRuns ==
    {next_song(Transport, current_playlist, env, StackFrames + 1) :
        env \in Envs}

\* previous_song as the previous button's command (line 539).
PreviousRuns ==
    {previous_song(Transport, current_playlist, env, StackFrames) :
        env \in Envs}

\* on_song_select (lines 740-745) for a double click on row i of the list.
SelectRuns(i) ==
    {play_song([Transport EXCEPT !.idx = i], current_playlist, env,
               StackFrames) : env \in Envs}

\* check_song_end as a callback scheduled by root.after(1000, ...), line 860.
TimerRuns ==
    IF pending = 0 THEN {}
    ELSE {check_song_end([Transport EXCEPT !.pending = @ - 1],
                         current_playlist, env, StackFrames + 1) :
             env \in Envs}

PlayPauseClicked == \E r \in ToggleRuns : Ran(r)

StopClicked == \E r \in StopRuns : Ran(r)

NextClicked == \E r \in NextRuns : Ran(r)

PreviousClicked == \E r \in PreviousRuns : Ran(r)

SongDoubleClicked ==
    \E i \in 0..(Len(current_playlist) - 1) : \E r \in SelectRuns(i) : Ran(r)

CheckSongEndTimer == \E r \in TimerRuns : Ran(r)

\* The VLC player starts to play the media it was opening.
MediaOpens ==
    /\ bstate = "opening"
    /\ bstate' = "playing"
    /\ UNCHANGED <<storeVars, configVars, current_index, is_playing,
                   is_paused, btrack, pending, displayVars>>

\* The backend plays the loaded track to its end.
TrackEnds ==
    /\ bstate = "playing"
    /\ bstate' = "ended"
    /\ UNCHANGED <<storeVars, configVars, current_index, is_playing,
                   is_paused, btrack, pending, displayVars>>

\* set_volume as the volume slider's command (line 613).
SetVolume ==
    \E v \in SliderValues :
        /\ volume' = set_volume(bvolume, v)[1]
        /\ bvolume' = set_volume(bvolume, v)[2]
        /\ UNCHANGED <<storeVars, configVars, current_index, is_playing,
                       is_paused, backendVars, pending, progress, ticks>>

\* update_progress as the callback of root.after(100, ...), line 929: the
\* first run is the call of line 220 in __init__.
UpdateProgressTimer ==
    /\ ticks > 0
    /\ \E pos \in Positions, readable \in BOOLEAN, fault \in ProgressFaults :
        LET r == progress_tick(pos, readable, fault)
        IN  /\ progress' = r.progress
            /\ ticks' = r.ticks
            /\ UNCHANGED <<storeVars, configVars, current_index, is_playing,
                           is_paused, backendVars, pending, volumeVars>>

----------------------------------------------------------------------------
(* Playlist store actions *)

\* select_playlist that also stops the playback, as stop_song does.
SelectPlaylist_stops_playback ==
    \E name \in DOMAIN playlists :
        /\ current_playlist_name' = name
        /\ current_playlist' =
               IF name = "All" THEN all_songs
               ELSE IF name = "Favourite" THEN favourites
               ELSE playlists[name]
        /\ is_playing' = FALSE
        /\ is_paused' = FALSE
        /\ bstate' = "idle"
        /\ UNCHANGED <<configVars, all_songs, favourites, playlists,
                       current_index, btrack, pending, displayVars>>

\* select_playlist (lines 394-414): a click on a sidebar item.
SelectPlaylist ==
    \E name \in DOMAIN playlists :
        /\ current_playlist_name' = name
        /\ current_playlist' =
               IF name = "All" THEN all_songs
               ELSE IF name = "Favourite" THEN favourites
               ELSE playlists[name]
        /\ UNCHANGED <<configVars, all_songs, favourites, playlists,
                       current_index, is_playing, is_paused, backendVars,
                       pending, displayVars>>

\* create_playlist (lines 627-638): the name typed is stripped and non-empty.
CreatePlaylist ==
    \E name \in TypedNames :
        /\ playlists' =
               IF name \in DOMAIN playlists THEN playlists
               ELSE [n \in DOMAIN playlists \cup {name} |->
                        IF n = name THEN <<>> ELSE playlists[n]]
        /\ UNCHANGED <<configVars, all_songs, favourites,
                       current_playlist_name, current_playlist, current_index,
                       is_playing, is_paused, backendVars, pending, displayVars>>

\* add_file (lines 640-664): the file dialog returns the path f.
AddFile ==
    \E f \in Songs :
        /\ IF Contains(all_songs, f)
           THEN UNCHANGED <<all_songs, playlists, current_playlist>>
           ELSE /\ all_songs' = Append(all_songs, f)
                /\ playlists' = [playlists EXCEPT !["All"] = Append(@, f)]
                /\ current_playlist' =
                       IF current_playlist_name = "All"
                       THEN Append(current_playlist, f)
                       ELSE current_playlist
        /\ UNCHANGED <<configVars, favourites, current_playlist_name,
                       current_index, is_playing, is_paused, backendVars,
                       pending, displayVars>>

\* The audio files os.walk yields for the folders the user may pick.
Folders == {<<"A">>, <<"B", "C">>}

\* Lines 701-708: append every file of the folder that is not yet known.
RECURSIVE walk_folder(_, _)
walk_folder(library, files) ==
    IF files = <<>> THEN library
    ELSE walk_folder(IF Contains(library, Head(files)) THEN library
                     ELSE Append(library, Head(files)),
                     Tail(files))

\* add_folder (lines 695-719).
AddFolder ==
    \E files \in Folders :
        LET added == walk_folder(all_songs, files)
        IN  /\ all_songs' = added
            /\ playlists' =
                   [playlists EXCEPT !["All"] = walk_folder(@, files)]
            /\ current_playlist' =
                   IF Len(added) > Len(all_songs)
                      /\ current_playlist_name = "All"
                   THEN added
                   ELSE current_playlist
            /\ UNCHANGED <<configVars, favourites, current_playlist_name,
                           current_index, is_playing, is_paused, backendVars,
                           pending, displayVars>>

\* The playlists other than the two default ones (lines 1060-1061).
CustomNames == DOMAIN playlists \ {"All", "Favourite"}

\* show_song_context_menu (lines 1031-1087) reads the selected row: the rows
\* of the list box are the entries of the view (update_song_list_display).
Rows == 0..(Len(current_playlist) - 1)

\* add_to_favourites (lines 1122-1130), offered for a row not in favourites,
\* while the favourites hold fewer than cap entries.
AddToFavouritesUpTo(cap) ==
    \E i \in Rows :
        LET file == current_playlist[i + 1]
        IN  /\ ~Contains(favourites, file)
            /\ Len(favourites) < cap
            /\ favourites' = Append(favourites, file)
            /\ playlists' = [playlists EXCEPT !["Favourite"] = Append(@, file)]
            /\ current_playlist' =
                   IF current_playlist_name = "Favourite"
                   THEN Append(current_playlist, file)
                   ELSE current_playlist
            /\ UNCHANGED <<configVars, all_songs, current_playlist_name,
                           current_index, is_playing, is_paused, backendVars,
                           pending, displayVars>>

AddToFavourites == AddToFavouritesUpTo(MaxListLen)

\* remove_from_favourites (lines 1132-1140), offered for a row in favourites.
\* list.remove raises ValueError when the path is not in the list; the lines
\* before the failing one have taken effect.
RemoveFromFavourites ==
    \E i \in Rows :
        LET file   == current_playlist[i + 1]
            stored == Contains(playlists["Favourite"], file)
        IN  /\ Contains(favourites, file)
            /\ favourites' = Remove(favourites, file)
            /\ playlists' =
                   IF stored
                   THEN [playlists EXCEPT !["Favourite"] = Remove(@, file)]
                   ELSE playlists
            /\ current_playlist' =
                   IF stored /\ current_playlist_name = "Favourite"
                   THEN Remove(current_playlist, file)
                   ELSE current_playlist
            /\ UNCHANGED <<configVars, all_songs, current_playlist_name,
                           current_index, is_playing, is_paused, backendVars,
                           pending, displayVars>>

\* add_song_to_playlist (lines 1142-1150), offered for a custom playlist
\* that does not hold the row's path.
AddSongToPlaylist ==
    \E i \in Rows, pn \in CustomNames :
        LET file == current_playlist[i + 1]
        IN  /\ ~Contains(playlists[pn], file)
            /\ Len(playlists[pn]) < MaxListLen
            /\ playlists' = [playlists EXCEPT ![pn] = Append(@, file)]
            /\ current_playlist' =
                   IF current_playlist_name = pn
                   THEN Append(current_playlist, file)
                   ELSE current_playlist
            /\ UNCHANGED <<configVars, all_songs, favourites,
                           current_playlist_name, current_index, is_playing,
                           is_paused, backendVars, pending, displayVars>>

\* remove_song_from_playlist (lines 1152-1159), offered for a custom playlist
\* that holds the row's path.
RemoveSongFromPlaylist ==
    \E i \in Rows, pn \in CustomNames :
        LET file == current_playlist[i + 1]
        IN  /\ Contains(playlists[pn], file)
            /\ playlists' = [playlists EXCEPT ![pn] = Remove(@, file)]
            /\ current_playlist' =
                   IF current_playlist_name = pn
                   THEN Remove(current_playlist, file)
                   ELSE current_playlist
            /\ UNCHANGED <<configVars, all_songs, favourites,
                           current_playlist_name, current_index, is_playing,
                           is_paused, backendVars, pending, displayVars>>

\* remove_song_from_current_playlist(i) for a row i of the view (lines
\* 1161-1176): the stored playlist, the view and the cursor afterwards.
\* Both lists lose the path by list.remove, that is its first occurrence.
remove_song_from_current_playlist(i) ==
    LET file  == current_playlist[i + 1]
        name  == current_playlist_name
        found == name \in DOMAIN playlists /\ Contains(playlists[name], file)
    IN  [found |-> found,
         playlists |->
             IF found THEN [playlists EXCEPT ![name] = Remove(@, file)]
             ELSE playlists,
         view |->
             IF found THEN Remove(current_playlist, file)
             ELSE current_playlist,
         idx |->
             IF found /\ i <= current_index /\ current_index > 0
             THEN current_index - 1
             ELSE current_index]

\* remove_song_from_current_playlist as the menu command, offered when the
\* current playlist is not "All" (line 1077).
RemoveSongFromCurrentPlaylist ==
    \E i \in Rows :
        LET r == remove_song_from_current_playlist(i)
        IN  /\ current_playlist_name # "All"
            /\ playlists' = r.playlists
            /\ current_playlist' = r.view
            /\ current_index' = r.idx
            /\ UNCHANGED <<configVars, all_songs, favourites,
                           current_playlist_name, is_playing, is_paused,
                           backendVars, pending, displayVars>>

\* delete_playlist (lines 1178-1197), offered for a custom playlist; the
\* user answers the confirmation; deleting the current playlist selects "All".
DeletePlaylist ==
    \E name \in CustomNames, yes \in BOOLEAN :
        /\ playlists' =
               IF yes THEN [n \in DOMAIN playlists \ {name} |-> playlists[n]]
               ELSE playlists
        /\ current_playlist_name' =
               IF yes /\ current_playlist_name = name THEN "All"
               ELSE current_playlist_name
        /\ current_playlist' =
               IF yes /\ current_playlist_name = name THEN all_songs
               ELSE current_playlist
        /\ UNCHANGED <<configVars, all_songs, favourites, current_index,
                       is_playing, is_paused, backendVars, pending, displayVars>>

\* The transport and the playlist store.  The volume slider and the progress
\* bar, which no handler of Next reads, are in DisplayNext and FrameNext.
Next ==
    \/ PlayPauseClicked
    \/ StopClicked
    \/ NextClicked
    \/ PreviousClicked
    \/ SongDoubleClicked
    \/ CheckSongEndTimer
    \/ MediaOpens
    \/ TrackEnds
    \/ SelectPlaylist
    \/ CreatePlaylist
    \/ AddFile
    \/ AddFolder
    \/ AddToFavourites
    \/ RemoveFromFavourites
    \/ AddSongToPlaylist
    \/ RemoveSongFromPlaylist
    \/ RemoveSongFromCurrentPlaylist
    \/ DeletePlaylist

Spec == Init /\ [][Next]_vars

\* The player without custom playlists and folders: the transport, the
\* backend, the library and the favourites.
PlayerNext ==
    \/ PlayPauseClicked
    \/ StopClicked
    \/ NextClicked
    \/ PreviousClicked
    \/ SongDoubleClicked
    \/ CheckSongEndTimer
    \/ MediaOpens
    \/ TrackEnds
    \/ SelectPlaylist
    \/ AddFile
    \/ AddToFavourites
    \/ RemoveFromFavourites
    \/ RemoveSongFromCurrentPlaylist

PlayerSpec == Init /\ [][PlayerNext]_vars

\* The transport with the volume slider and the progress bar, on the
\* library as the songs folder and the file dialog fill it.
DisplayNext ==
    \/ PlayPauseClicked
    \/ StopClicked
    \/ NextClicked
    \/ PreviousClicked
    \/ SongDoubleClicked
    \/ CheckSongEndTimer
    \/ UpdateProgressTimer
    \/ SetVolume
    \/ MediaOpens
    \/ TrackEnds
    \/ SelectPlaylist
    \/ AddFile

DisplaySpec == Init /\ [][DisplayNext]_vars

\* Every handler that is not a transport operation (the playlist store, the
\* volume slider, the progress bar), with the play/pause and stop buttons
\* and the backend to give them a playback to disturb.
FrameNext ==
    \/ PlayPauseClicked
    \/ StopClicked
    \/ MediaOpens
    \/ TrackEnds
    \/ UpdateProgressTimer
    \/ SetVolume
    \/ SelectPlaylist
    \/ CreatePlaylist
    \/ AddFile
    \/ AddFolder
    \/ AddToFavourites
    \/ RemoveFromFavourites
    \/ AddSongToPlaylist
    \/ RemoveSongFromPlaylist
    \/ RemoveSongFromCurrentPlaylist
    \/ DeletePlaylist

FrameSpec == Init /\ [][FrameNext]_vars

\* The edits of the favourites from the song menu, with the double click to
\* put the cursor on a row and favourites of up to MaxEditLen entries.
EditNext ==
    \/ SongDoubleClicked
    \/ SelectPlaylist
    \/ AddToFavouritesUpTo(MaxEditLen)
    \/ RemoveFromFavourites
    \/ RemoveSongFromCurrentPlaylist

EditSpec == Init /\ [][EditNext]_vars

----------------------------------------------------------------------------
(* Transport State as the flags encode it *)

Stopped == ~is_playing /\ ~is_paused
Playing == is_playing
Paused  == is_paused /\ ~is_playing

\* The runs of the handlers that call play_song on the user's behalf.
PlayRuns ==
    ToggleRuns \cup NextRuns \cup PreviousRuns
        \cup UNION {SelectRuns(i) : i \in 0..(Len(current_playlist) - 1)}

----------------------------------------------------------------------------
(* Claims *)

\* C1: whenever the view is not empty the cursor is an index of the view,
\* 0 <= current_index < len(current_playlist).
C1_CursorInView ==
    current_playlist # <<>> =>
        (0 <= current_index /\ current_index < Len(current_playlist))

\* C2: end-of-track polling is never lost while Playing: when the flags say
\* Playing, the view is not empty and the loaded track has played to its end,
\* a check_song_end callback is scheduled, so the timer alone reaches next().
C2_PollingNeverLost ==
    (Playing /\ current_playlist # <<>> /\ bstate = "ended") => pending > 0

\* C3: check_song_end calls next_song only while Playing and while the
\* active backend (VLC or pygame, as chosen at construction) is not busy:
\* no handler run makes it advance while the active backend is playing.
C3_AdvanceOnlyWhenBackendIdle ==
    [][\A r \in PlayRuns \cup TimerRuns : Ran(r) => ~r.advBusy]_vars

\* C4: a check_song_end callback that observes the end of the track while
\* Playing calls next() once: the cursor moves on by one, one track is
\* loaded and the player is Playing that track.
C4_OneAdvancePerCompletion ==
    [][(Playing /\ bstate = "ended" /\ current_playlist # <<>>) =>
          \A r \in TimerRuns :
              Ran(r) =>
                  /\ r.nexts = 1
                  /\ r.loads = 1
                  /\ current_index' =
                         (current_index + 1) % Len(current_playlist)
                  /\ is_playing' /\ ~is_paused'
                  /\ bstate' = "playing"
                  /\ btrack' = current_playlist[current_index' + 1]]_vars

\* C5: with a valid cursor c on a non-empty view, a next() whose play_song
\* succeeds returns with cursor (c + 1) mod len and that track loaded last;
\* previous() likewise with (c - 1) mod len.
C5_NextPreviousLoadNeighbour ==
    [][(current_playlist # <<>> /\ current_index < Len(current_playlist)) =>
          LET n == Len(current_playlist)
          IN  /\ \A r \in NextRuns :
                     (Ran(r) /\ r.first = "ok") =>
                         /\ current_index' = (current_index + 1) % n
                         /\ btrack' = current_playlist[current_index' + 1]
              /\ \A r \in PreviousRuns :
                     (Ran(r) /\ r.first = "ok") =>
                         /\ current_index' = (current_index - 1) % n
                         /\ btrack' = current_playlist[current_index' + 1]]_vars

\* A run in which play_song failed: it found the view empty, the file
\* missing or the backend unable to load (lines 798-819), or its outer
\* except clause reported "Could not play song" (lines 848-851).
PlayFailed(r) == r.first \in {"empty", "missing", "error"} \/ r.caught

\* C6: a handler run in which play_song fails leaves is_playing and
\* is_paused as they were before the call.
C6_FailureKeepsTransportState ==
    [][\A r \in PlayRuns \cup TimerRuns :
          (Ran(r) /\ PlayFailed(r)) =>
              (is_playing' = is_playing /\ is_paused' = is_paused)]_vars

\* C7: a next(), previous() or direct play whose play_song fails with a
\* missing file or a load error leaves the cursor at its value before the
\* call and the backend on the track it had, in the state it had.
C7_FailureKeepsCursorAndBackend ==
    [][\A r \in PlayRuns :
          (Ran(r) /\ r.first \in {"missing", "error"}) =>
              /\ current_index' = current_index
              /\ bstate' = bstate
              /\ btrack' = btrack]_vars

\* The sequence stored for a playlist name (lines 406-411).
StoredSequence(name) ==
    IF name = "All" THEN all_songs
    ELSE IF name = "Favourite" THEN favourites
    ELSE playlists[name]

\* C8: after select_playlist(name) the view is the ordered sequence of the
\* selected playlist and the cursor is 0.
C8_SelectResetsCursor ==
    [][SelectPlaylist =>
          /\ current_playlist' = StoredSequence(current_playlist_name')
          /\ current_index' = 0]_vars

\* C9: is_playing and is_paused are never both true, so exactly one of
\* Stopped, Playing and Paused holds.
C9_OneTransportState ==
    /\ is_playing \in BOOLEAN
    /\ is_paused \in BOOLEAN
    /\ ~(is_playing /\ is_paused)

\* C9 witness: the player is Paused on a loaded track after a play and a
\* pause, with a check_song_end callback still scheduled.
C9_Witness == Paused /\ bstate = "paused" /\ pending > 0

\* C10: toggle_play_pause in Paused sends resume and yields Playing, in
\* Playing it sends pause and yields Paused, in Stopped it does what
\* play_song does.
C10_ToggleFollowsState ==
    \A r \in ToggleRuns :
        /\ Paused => ("unpause" \in r.cmds /\ r.playing /\ ~r.paused)
        /\ Playing => ("pause" \in r.cmds /\ r.paused /\ ~r.playing)
        /\ Stopped =>
               \E env \in Envs :
                   r = play_song(Transport, current_playlist, env, StackFrames)

\* The fields of a transport record that become the state.
StateOf(r) ==
    <<r.idx, r.playing, r.paused, r.bstate, r.btrack, r.pending, r.progress>>

\* C11: stop_song in any state leaves the player Stopped with the backend
\* stopped and the progress bar at 0, a second stop_song changes nothing,
\* and while Stopped neither timer callback (update_progress,
\* check_song_end) changes the flags or the progress bar.
C11_StopResetsAndStays ==
    /\ \A r \in StopRuns :
           /\ ~r.playing /\ ~r.paused
           /\ r.progress = 0
           /\ r.bstate = "idle"
           /\ ~NoBackend => "stop" \in r.cmds
           /\ StateOf(stop_song([r EXCEPT !.exc = FALSE, !.cmds = {}]))
                  = StateOf(r)
    /\ Stopped =>
           /\ \A pos \in Positions, readable \in BOOLEAN :
                  update_progress(pos, readable) = progress
           /\ \A r \in TimerRuns :
                  /\ r.playing = is_playing /\ r.paused = is_paused
                  /\ r.progress = progress

\* C11 witness: the pygame player Stopped by stop_song after a play: a track
\* is loaded and silent, the progress bar is at 0 and a check_song_end
\* callback of the play is still scheduled.
C11_Witness ==
    /\ ~use_vlc /\ Stopped
    /\ btrack # NoTrack /\ bstate = "idle"
    /\ progress = 0 /\ pending > 0

\* The handlers that are not transport operations.
FrameStep ==
    \/ SelectPlaylist
    \/ SetVolume
    \/ UpdateProgressTimer
    \/ CreatePlaylist
    \/ AddFile
    \/ AddFolder
    \/ AddToFavourites
    \/ RemoveFromFavourites
    \/ AddSongToPlaylist
    \/ RemoveSongFromPlaylist
    \/ RemoveSongFromCurrentPlaylist
    \/ DeletePlaylist

\* C12: select_playlist, set_volume, update_progress and every playlist edit
\* leave is_playing and is_paused as they are and send no command to the
\* backend (its state and its loaded track stay); the flags change only in
\* a step of a transport handler.
C12_OnlyTransportChangesState ==
    [][/\ FrameStep =>
              UNCHANGED <<is_playing, is_paused, bstate, btrack>>
       /\ (is_playing' # is_playing \/ is_paused' # is_paused) =>
              \/ PlayPauseClicked
              \/ StopClicked
              \/ NextClicked
              \/ PreviousClicked
              \/ SongDoubleClicked
              \/ CheckSongEndTimer]_vars

\* C12 witness: a track is playing after the view was switched to the
\* favourites, a file was added to the library, the volume was changed and
\* the progress bar was moved.
C12_Witness ==
    /\ is_playing /\ bstate = "playing"
    /\ current_playlist_name = "Favourite"
    /\ Len(all_songs) > Len(SongsFolder)
    /\ volume # InitialVolume
    /\ progress > 0

\* k consecutive calls of next_song in the environment env, nothing in
\* between; first is "ok" at the end when play_song succeeded in every call.
RECURSIVE NextTimes(_, _, _, _)
NextTimes(t, view, env, k) ==
    IF k = 0 THEN [t EXCEPT !.first = "ok"]
    ELSE LET r == next_song([t EXCEPT !.first = "none"], view, env,
                            StackFrames + 1)
         IN  IF r.first = "ok" THEN NextTimes(r, view, env, k - 1) ELSE r

\* C13: on a non-empty view of length n, n consecutive next_song calls whose
\* play_song succeeds bring the cursor back to the value it started from.
C13_NextWrapsAround ==
    current_playlist # <<>> =>
        \A env \in Envs :
            LET r == NextTimes(Transport, current_playlist, env,
                               Len(current_playlist))
            IN  r.first = "ok" => r.idx = current_index

\* A transport record as the next handler finds it: the observations of the
\* handler that produced it are cleared.
Settled(r) ==
    [r EXCEPT !.exc = FALSE, !.loads = 0, !.nexts = 0, !.advBusy = FALSE,
              !.caught = FALSE, !.cmds = {}, !.first = "none",
              !.text = {}, !.shown = {}]

\* C14: from a cursor inside a non-empty view, previous_song followed by
\* next_song, and next_song followed by previous_song, leave the cursor
\* where it was.
C14_PreviousNextCancel ==
    (current_playlist # <<>> /\ current_index < Len(current_playlist)) =>
        \A env \in Envs :
            LET view == current_playlist
                p  == previous_song(Transport, view, env, StackFrames)
                pn == next_song(Settled(p), view, env, StackFrames + 1)
                n  == next_song(Transport, view, env, StackFrames + 1)
                np == previous_song(Settled(n), view, env, StackFrames)
            IN  pn.idx = current_index /\ np.idx = current_index

\* C15: from Playing, two consecutive toggle_play_pause calls go to Paused
\* and back to Playing, with the cursor where it was and no track loaded.
C15_ToggleTwiceFromPlaying ==
    Playing =>
        \A env \in Envs :
            LET view == current_playlist
                t1 == toggle_play_pause(Transport, view, env, StackFrames)
                t2 == toggle_play_pause(Settled(t1), view, env, StackFrames)
            IN  /\ t1.paused /\ ~t1.playing
                /\ t2.playing /\ ~t2.paused
                /\ t2.idx = current_index
                /\ t1.loads = 0 /\ t2.loads = 0

\* The arguments set_volume is tried with: the slider's values and one
\* value on either side of the slider's range.
VolumeInputs == SliderValues \cup {0 - 50, 170}

\* C16: set_volume(v) stores a volume inside 0..100 (0 for an input below
\* the range, 100 for one above it), and, when there is a backend to
\* forward to, the backend is given the stored value.
C16_VolumeClampedAndForwarded ==
    \A v \in VolumeInputs :
        LET stored    == set_volume(bvolume, v)[1]
            forwarded == set_volume(bvolume, v)[2]
        IN  /\ stored \in 0..100
            /\ v < 0 => stored = 0
            /\ v > 100 => stored = 100
            /\ ~NoBackend => forwarded = stored

\* C16 restricted to the slider's own values, as a step of SetVolume.
C16_SliderVolumeForwarded ==
    [][(SetVolume /\ ~NoBackend) =>
           (volume' \in 0..100 /\ bvolume' = volume')]_vars

\* C17: a handler run in which play_song loads a track also hands the
\* stored volume to the backend (a set_volume command after the load).
C17_VolumePushedAfterLoad ==
    [][\A r \in PlayRuns \cup TimerRuns :
          (Ran(r) /\ r.loads > 0) => "set_volume" \in r.cmds]_vars

\* C18: in VLC mode toggle_play_pause calls the player's pause() toggle to
\* pause only while the player is playing, and to resume only while the
\* player is paused on a loaded track.
C18_VlcToggleOnlyWhenItMoves ==
    [][use_vlc =>
          \A r \in ToggleRuns :
              Ran(r) =>
                  /\ "pause" \in r.cmds => bstate = "playing"
                  /\ "unpause" \in r.cmds =>
                         (bstate = "paused" /\ btrack # NoTrack)]_vars

\* C19: in pygame mode, whenever update_progress asks for the duration
\* (Playing and backend busy), the duration it gets from a readable file is
\* the duration of the track loaded in the backend.
C19_DurationOfLoadedTrack ==
    (~use_vlc /\ is_playing /\ backend_is_busy(Transport)) =>
        backend_get_duration_seconds(TRUE) = Duration[btrack]

\* C20: a run of update_progress while Playing with a busy backend leaves
\* the progress bar at position / duration in percent, capped at 100, and at
\* 0 when the duration is 0 (files whose metadata mutagen can read).
C20_TickPublishesRatioOrZero ==
    (is_playing /\ backend_is_busy(Transport)) =>
        \A pos \in Positions :
            LET duration == backend_get_duration_seconds(TRUE)
            IN  update_progress(pos, TRUE) =
                    IF duration = 0 THEN 0
                    ELSE Min((pos * 100) \div duration, 100)

\* C21: update_progress never lets an error out and always schedules itself
\* again, whatever the position, duration and busy queries return or raise:
\* exactly one update_progress callback is scheduled in every state.
C21_OneProgressTickPending ==
    /\ ticks = 1
    /\ \A pos \in Positions, readable \in BOOLEAN, fault \in ProgressFaults :
           LET r == progress_tick(pos, readable, fault)
           IN  ~r.exc /\ r.ticks = 1

\* C21 witness: a tick has published a position of the playing track (only
\* update_progress raises the bar above 0) and the next tick is scheduled.
C21_Witness ==
    is_playing /\ backend_is_busy(Transport) /\ progress > 0 /\ ticks = 1
\* C22: every call of play_song, next_song, previous_song and
\* toggle_play_pause returns after loading at most one track, whatever the
\* backend does, a backend that is not busy right after the load included.
C22_AtMostOneLoadPerCall ==
    \A r \in PlayRuns : r.pending <= MaxPending => r.loads <= 1
\* C23: when neither backend could be initialised, construction fails: no
\* state of a constructed player is without a backend, and so no transport
\* handler ever runs without one.
C23_NoPlayerWithoutBackend ==
    NoBackend => ToggleRuns \cup StopRuns \cup NextRuns \cup PreviousRuns = {}
\* C24: when pygame reports "ModPlug_load failed" for the file under the
\* cursor, play_song's error box carries the advice to install the VLC
\* backend, not the pygame error alone, and that call does not set
\* is_playing.
C24_ModPlugFailureIsExplained ==
    (~use_vlc /\ mixer_ok) =>
        \A r \in PlayRuns \cup TimerRuns :
            (/\ r.first = "error"
             /\ DecodeError[current_playlist[r.idx + 1]]
                    = "ModPlug_load failed")
            => /\ "remediation" \in r.shown
               /\ r.playing = is_playing
               /\ r.paused = is_paused

\* C24 witness: pygame could not decode file A, asked for while another
\* track played: the flags still say Playing, the backend was stopped for
\* the load, and the cursor is on A.
C24_Witness ==
    /\ ~use_vlc /\ mixer_ok
    /\ is_playing /\ bstate = "idle" /\ btrack # NoTrack
    /\ current_index < Len(current_playlist)
    /\ DecodeError[current_playlist[current_index + 1]] = "ModPlug_load failed"
    /\ \E r \in PlayRuns : r.first = "error" /\ "remediation" \in r.shown
NoDuplicates(seq) ==
    \A i, j \in 1..Len(seq) : seq[i] = seq[j] => i = j

\* C25: no playlist holds a path twice: all_songs, favourites, every entry
\* of playlists and the view are free of duplicates in every state.
C25_NoDuplicatePaths ==
    /\ NoDuplicates(all_songs)
    /\ NoDuplicates(favourites)
    /\ \A n \in DOMAIN playlists : NoDuplicates(playlists[n])
    /\ NoDuplicates(current_playlist)
\* C26: the backend is chosen once, in __init__: no handler, timer or edit
\* changes _use_vlc afterwards, a playback failure included.
C26_BackendChosenOnce == [][use_vlc' = use_vlc]_vars

\* C26 witness: in pygame mode a load failed while a track played (the
\* flags say Playing over a stopped backend) and pygame is still in use.
C26_Witness ==
    ~use_vlc /\ mixer_ok /\ is_playing /\ bstate = "idle" /\ pending > 0
\* C27: self.favourites and self.playlists["Favourite"] hold the same
\* sequence in every state.
C27_FavouritesStoredOnce == favourites = playlists["Favourite"]

\* C28: at most one check_song_end callback is scheduled at any time.
C28_OnePendingCheck == pending <= 1

\* C29: the view is the stored sequence of the selected playlist in every
\* state, so selecting the selected playlist again changes nothing.
C29_ViewIsStoredSequence ==
    /\ current_playlist_name \in DOMAIN playlists
    /\ current_playlist = StoredSequence(current_playlist_name)

\* C30: no playlist edit the context menus offer raises: every list.remove
\* of remove_from_favourites, remove_song_from_playlist and
\* remove_song_from_current_playlist finds the row's path in its list, and
\* delete_playlist finds the playlist it is offered for.
C30_OfferedEditsFindTheirSong ==
    /\ \A i \in Rows :
           LET file == current_playlist[i + 1]
           IN  /\ Contains(favourites, file) =>
                       Contains(playlists["Favourite"], file)
               /\ \A pn \in CustomNames :
                       (Contains(playlists[pn], file)
                            /\ current_playlist_name = pn)
                       => Contains(current_playlist, file)
    /\ \A name \in CustomNames : name \in DOMAIN playlists
\* C31: current_index is never negative, and right after a handler run that
\* called play_song on a non-empty view the cursor is an index of the view
\* and the track the backend was handed is the one under the cursor.
C31_PlayedTrackIsUnderCursor ==
    /\ current_index >= 0
    /\ current_playlist # <<>> =>
           \A r \in PlayRuns :
               r.first # "none" =>
                   /\ 0 <= r.idx /\ r.idx < Len(current_playlist)
                   /\ r.loads > 0 => r.btrack = current_playlist[r.idx + 1]
\* C32: remove_song_from_current_playlist(index) keeps the cursor on its
\* track when it removes another one: with the cursor inside the view,
\* removing a row before the cursor moves the cursor down by one, removing
\* a row after it leaves the cursor alone, and in both cases the path under
\* the cursor is the one that was there before.
C32_RemovalKeepsCursorOnTrack ==
    (current_playlist_name # "All" /\ current_index < Len(current_playlist)) =>
        \A i \in Rows :
            LET r == remove_song_from_current_playlist(i)
                under == current_playlist[current_index + 1]
            IN  r.found =>
                    /\ i < current_index =>
                           /\ r.idx = current_index - 1
                           /\ r.view[r.idx + 1] = under
                    /\ i > current_index =>
                           /\ r.idx = current_index
                           /\ r.view[r.idx + 1] = under
====
